---- MODULE Spec2Model ----
(***************************************************************************)
(* SATI conversation ledger (src/nodejs/server.js): the /chat handler, the *)
(* turns table, the content and chain hashes, and verifyConversation;     *)
(* the prompt assembler and the provider adapters (llm-client.js); and    *)
(* the /chat handler of the .NET service (Program.cs,                     *)
(* ConversationService.cs, PromptService.cs), whose InsertTurn reads the  *)
(* last chain hash and inserts in two steps; and the document index       *)
(* SimpleRAG (rag.js) with its asynchronous initialize and loadDocument.   *)
(*                                                                         *)
(* SHA-256 is modelled as a collision-free digest: the digest of x is the  *)
(* tagged value <<"sha256", x>>.  JSON.stringify of the four hashed fields *)
(* in their fixed key order is the 4-tuple of the fields; the string       *)
(* concatenation contentHash + previousChainHash is the pair of the two    *)
(* (contentHash has a fixed width, so the concatenation is injective).     *)
(* SQL NULL / JS null is the empty tuple, and the genesis string "0" is    *)
(* the 1-tuple <<"0">>, so that every hash-typed value is a tuple.         *)
(***************************************************************************)
EXTENDS Integers, Sequences, FiniteSets, Bags, TLC

VARIABLES
    turns,      \* the rows of table `turns`
    seq,        \* AUTOINCREMENT counter of the table (last id handed out)
    received,   \* number of /chat requests received so far
    pending,    \* bag of the /chat requests suspended at an await
    response,   \* the response sent last (status 0: none yet)
    tampered,   \* the <<row id, column>> edited directly in the database, if any
    assembly,   \* the prompt assembly under study: its inputs, then its outputs
    result,     \* the global `result` that assemblePrompt assigns without declaring
    rag,        \* the SimpleRAG instance: documentChunks, isLoaded, loadedFiles
    ragCalls    \* the calls made on the instance: how many async calls were
                \* started, which are in flight, what the last search returned

vars == <<turns, seq, received, pending, response, tampered, assembly, result,
          rag, ragCalls>>

----------------------------------------------------------------------------
(* Bounds *)

MaxRequests == 3    \* number of /chat requests received in a behaviour
MaxTurn == 1        \* largest `turn` number a request body declares
MaxEdited == 2      \* number of /chat requests in a behaviour with a direct edit
MaxVerified == 2    \* number of /chat requests in a behaviour with /verify calls
MaxNetRequests == 2 \* number of /chat requests the .NET service receives
MaxHistory == 2     \* number of turns in a history handed to the assembler
MaxLive == 2        \* number of /chat requests in a behaviour checked for progress
MaxBody == 2        \* number of /chat requests whose body carries any form of `turn`
MaxShared == 2      \* number of /chat requests in a behaviour with two distinct answers
MaxChain == 3       \* number of /chat requests in a behaviour with an altered chain hash or a deleted turn
MaxRagCalls == 2    \* number of async SimpleRAG calls (initialize, addDocument) started

----------------------------------------------------------------------------
(* Values *)

Null == <<>>
Genesis == <<"0">>

\* the conversation ids in use: the id callers send, then names for the
\* first, second, ... id crypto.randomUUID() hands out.  The ids are random
\* strings: the list says nothing about how they compare (see ConvOrders)
ConvIds == <<"c1", "u1", "u2", "u3", "u4", "u5", "u6">>
CallerConvIds == {"c1"}
\* the empty string as conversationId.  The node handler tests the id for
\* truthiness (line 61), so NoConv stands for an absent id as well there; the
\* .NET handler tests for null only and keeps the empty string as an id
NoConv == ""
\* a body without conversationId, or with null, as the .NET handler binds it
\* (ChatRequest.ConversationId == null); no id a caller sends
NullConversationId == "null"
\* an id generator that hands out one and the same id
randomUUID_Fixed(used) == ConvIds[2]

\* crypto.randomUUID(): an id no row and no request carries (the first such)
randomUUID(used) ==
    ConvIds[CHOOSE i \in 2..Len(ConvIds) :
              /\ ConvIds[i] \notin used
              /\ \A j \in 2..(i-1) : ConvIds[j] \in used]

Prompts == {"p1"}
\* texts the inference provider may return, by what JSON.parse makes of them:
\*   "r1", "r2"  an object with a string field answer, as {"answer":"fee"}
\*   "o1"        an object without a string answer, as {"foo":1}
\*   "a1"        an array, as [1]
\*   "null"      the value null
\*   "n1"        a number, a string or a boolean, as 1
\* and every other text ("bad") is no JSON: JSON.parse throws a SyntaxError
ObjectTexts == {"r1", "r2", "o1"}
ArrayTexts == {"a1"}
NullTexts == {"null"}
PrimitiveTexts == {"n1"}
\* the texts JSON.parse accepts
JsonTexts == ObjectTexts \cup ArrayTexts \cup NullTexts \cup PrimitiveTexts
\* the texts whose value keeps the property the handler sets (satiJson.turn)
TurnTexts == ObjectTexts \cup ArrayTexts
\* the texts whose value carries a string under answer (parsed.answer)
AnswerTexts == {"r1", "r2"}
\* LLMTexts are the answers of the behaviours in which all calls that succeed
\* answer alike; AllTexts has one text of every kind
LLMTexts == {"r1", "bad"}
AllTexts == JsonTexts \cup {"bad"}
LLMErrors == {"network", "timeout"}
BodyTurns == 0..MaxTurn
\* the conversation ids GET /verify/:conversationId is called with ("u1" is
\* the first id randomUUID hands out), and NoConv for GET /verify
VerifyIds == {NoConv, "c1", "u1"}

HashedColumns == {"turn", "user_prompt", "llm_response", "machine_state"}
ContentColumns == {"user_prompt", "llm_response", "machine_state"}
\* the columns neither hash covers
UnhashedColumns == {"timestamp", "full_prompt", "rag_context"}

\* JS values of any type (a request body's turn, a search query): a value is
\* its type and its text, the text a sequence of characters
DigitChars == <<"0", "1", "2", "3", "4", "5", "6", "7", "8", "9">>

\* Number.prototype.toString of a number below 100
NumberToString(n) ==
    IF n < 10 THEN <<DigitChars[n + 1]>>
    ELSE <<DigitChars[(n \div 10) + 1], DigitChars[(n % 10) + 1]>>

DigitOf(ch) == (CHOOSE i \in DOMAIN DigitChars : DigitChars[i] = ch) - 1

\* the integer a sequence of decimal digits denotes
RECURSIVE ToNumber(_)
ToNumber(d) ==
    IF d = <<>> THEN 0
    ELSE 10 * ToNumber(SubSeq(d, 1, Len(d) - 1)) + DigitOf(d[Len(d)])

JsNumber(n) == [type |-> "number", text |-> NumberToString(n)]
JsString(d) == [type |-> "string", text |-> d]
JsNaN == [type |-> "number", text |-> <<"NaN">>]
JsUndefined == [type |-> "undefined", text |-> <<>>]

----------------------------------------------------------------------------
(* Content Hasher and Chain Linker *)

SHA256(x) == <<"sha256", x>>

hashTurnContent(turn, userPrompt, llmResponse, machineState) ==
    SHA256(<<turn, userPrompt, llmResponse, machineState>>)

\* a chain hash that leaves the previous chain hash out
createChainHash_Unlinked(contentHash, previousChainHash) ==
    SHA256(<<contentHash, Genesis>>)

createChainHash(contentHash, previousChainHash) ==
    SHA256(<<contentHash,
             IF previousChainHash = Null THEN Genesis ELSE previousChainHash>>)

\* the previous chain hash a stored chain hash was computed from
PrevOf(chainHash) == chainHash[2][2]

\* JSON.stringify(satiJson) after satiJson = JSON.parse(text), satiJson.turn = t;
\* JSON.stringify writes the elements of an array and none of its properties
machineStateOf(text, t) == IF text \in ArrayTexts THEN <<text>> ELSE <<text, t>>

----------------------------------------------------------------------------
(* Turn Store *)

RowsOf(T, c) == {r \in T : r.conversation_id = c}
ConvsOf(T) == {r.conversation_id : r \in T}

\* the row of R a SELECT ... ORDER BY turn DESC LIMIT 1 returns.  SQL leaves
\* the order of rows with equal turn open; SQLite scans the table by id and
\* sorts stably, so of the rows with the highest turn the one inserted first
\* (lowest id) comes first
TopRows(R) ==
    {q \in R : \A o \in R : o.turn < q.turn \/ (o.turn = q.turn /\ q.id <= o.id)}

\* getLastChainHash with the WHERE conversation_id = ? clause left out
getLastChainHash_AnyConversation(T, c) ==
    IF T = {} THEN {Null}
    ELSE {r.chain_hash : r \in TopRows(T)}

\* SELECT chain_hash ... WHERE conversation_id = ? ORDER BY turn DESC LIMIT 1;
\* row ? row.chain_hash : null.  The result is a set of one value
getLastChainHash(T, c) ==
    IF RowsOf(T, c) = {} THEN {Null}
    ELSE {r.chain_hash : r \in TopRows(RowsOf(T, c))}

\* INSERT OR REPLACE on a table with UNIQUE(conversation_id, turn): a stored
\* row with the key of the new row is deleted
insertTurn_Replace(T, id, c, t, prompt, llmResponse, ms, contentHash, chainHash) ==
    {r \in T : ~(r.conversation_id = c /\ r.turn = t)}
      \cup {[id |-> id, conversation_id |-> c, turn |-> t, timestamp |-> id,
              user_prompt |-> prompt, full_prompt |-> Null,
              llm_response |-> llmResponse, machine_state |-> ms,
              rag_context |-> Null,
              content_hash |-> contentHash, chain_hash |-> chainHash]}

\* INSERT INTO turns (...) VALUES (...): the table declares no UNIQUE key, so
\* the insert always succeeds and takes the next AUTOINCREMENT id; timestamp
\* takes its default, the time of the insert (the id serves as the clock)
insertTurn(T, id, c, t, prompt, llmResponse, ms, contentHash, chainHash) ==
    T \cup {[id |-> id, conversation_id |-> c, turn |-> t, timestamp |-> id,
             user_prompt |-> prompt, full_prompt |-> Null,
             llm_response |-> llmResponse, machine_state |-> ms,
             rag_context |-> Null,
             content_hash |-> contentHash, chain_hash |-> chainHash]}

----------------------------------------------------------------------------
(* Verifier *)

\* the orders in which a SELECT ... ORDER BY [conversation_id,] turn ASC
\* may return the rows R.  conversation_id is TEXT and is compared byte by
\* byte; a generated id is a random UUID, which may sort before or after the
\* caller's id and before or after any other generated id, so every order
\* of the stored conversation ids is one the program can meet.  Rows of one
\* conversation come back by ascending turn, and rows with equal keys by
\* ascending id (see TopRows)
ConvOrders(C) ==
    {rank \in [C -> 1..Cardinality(C)] :
        \A c, d \in C : c # d => rank[c] # rank[d]}

Perms(R) ==
    {f \in [1..Cardinality(R) -> R] : \A r \in R : \E i \in DOMAIN f : f[i] = r}

\* an ORDER BY that returned rows with equal keys in any order
Before_AnyTieOrder(rank, a, b) ==
    \/ rank[a.conversation_id] < rank[b.conversation_id]
    \/ a.conversation_id = b.conversation_id /\ a.turn <= b.turn

\* row a comes no later than row b when the conversation ids compare as rank
Before(rank, a, b) ==
    \/ rank[a.conversation_id] < rank[b.conversation_id]
    \/ a.conversation_id = b.conversation_id /\ a.turn < b.turn
    \/ a.conversation_id = b.conversation_id /\ a.turn = b.turn /\ a.id <= b.id

ScanOrders(R) ==
    {f \in Perms(R) :
        \E rank \in ConvOrders(ConvsOf(R)) :
            \A i, j \in DOMAIN f : i < j => Before(rank, f[i], f[j])}

\* the scan with chainMap.set(...) left out: every turn is checked against null
PrevHashAt_NoChainMap(f, i) == Null

\* a running value that is set to the chain hash the verifier computed, not
\* to the one stored
RECURSIVE PrevHashAt_Recomputed(_, _)
PrevHashAt_Recomputed(f, i) ==
    LET earlier == {j \in 1..(i-1) : f[j].conversation_id = f[i].conversation_id}
    IN  IF earlier = {} THEN Null
        ELSE LET j == CHOOSE j \in earlier : \A k \in earlier : k <= j
             IN  createChainHash(f[j].content_hash, PrevHashAt_Recomputed(f, j))

\* chainMap.get(conversation_id) || null when row i of scan f is reached
PrevHashAt(f, i) ==
    LET earlier == {j \in 1..(i-1) : f[j].conversation_id = f[i].conversation_id}
    IN  IF earlier = {} THEN Null
        ELSE f[CHOOSE j \in earlier : \A k \in earlier : k <= j].chain_hash

\* a check that also holds full_prompt against the value it is inserted with
InvalidAt_FullPrompt(f, i) ==
    LET turn == f[i]
        expectedContentHash == hashTurnContent(turn.turn, turn.user_prompt,
                                               turn.llm_response, turn.machine_state)
        expectedChainHash == createChainHash(turn.content_hash, PrevHashAt(f, i))
    IN  \/ expectedContentHash # turn.content_hash
        \/ expectedChainHash # turn.chain_hash
        \/ turn.full_prompt # Null

\* the check with the content hash comparison left out
InvalidAt_ChainOnly(f, i) ==
    LET turn == f[i]
        expectedChainHash == createChainHash(turn.content_hash, PrevHashAt(f, i))
    IN  expectedChainHash # turn.chain_hash

InvalidAt(f, i) ==
    LET turn == f[i]
        expectedContentHash == hashTurnContent(turn.turn, turn.user_prompt,
                                               turn.llm_response, turn.machine_state)
        contentValid == expectedContentHash = turn.content_hash
        expectedChainHash == createChainHash(turn.content_hash, PrevHashAt(f, i))
        chainValid == expectedChainHash = turn.chain_hash
    IN  ~contentValid \/ ~chainValid

\* lines 205-243: the report of the scan f; an empty scan returns early with
\* a report that carries a message in place of the two counts
ReportOf(f) ==
    LET bad == {i \in DOMAIN f : InvalidAt(f, i)}
    IN  IF Len(f) = 0
        THEN [valid |-> TRUE, totalTurns |-> 0, message |-> "No turns to verify"]
        ELSE [valid |-> bad = {}, totalTurns |-> Len(f),
              invalidTurns |-> Cardinality(bad),
              conversationsVerified |->
                  Cardinality({f[i].conversation_id : i \in DOMAIN f})]

\* verifyConversation(conversationId): the report the call returns on table
\* T, as a set of one (one per scan order); NoConv verifies every conversation
verifyConversation(T, c) ==
    {ReportOf(f) : f \in ScanOrders(IF c = NoConv THEN T ELSE RowsOf(T, c))}

\* the history query with its WHERE conversation_id = ? clause left out
getConversationHistory_AllConversations(T, c) ==
    {[i \in DOMAIN f |-> [turn |-> f[i].turn, user_prompt |-> f[i].user_prompt,
                          llm_response |-> f[i].llm_response]] :
        f \in ScanOrders(T)}

\* getConversationHistory(conversationId): SELECT turn, user_prompt,
\* llm_response ... ORDER BY turn ASC; the list the call returns (a set of one)
getConversationHistory(T, c) ==
    {[i \in DOMAIN f |-> [turn |-> f[i].turn, user_prompt |-> f[i].user_prompt,
                          llm_response |-> f[i].llm_response]] :
        f \in ScanOrders(RowsOf(T, c))}

----------------------------------------------------------------------------
(* Prompt Assembler.  A text is a sequence of tokens; "\n" is the one       *)
(* whitespace token, and the empty text is the empty sequence               *)

NL == <<"\n">>
NL2 == <<"\n", "\n">>

RECURSIVE TrimStart(_)
TrimStart(s) == IF s # <<>> /\ Head(s) = "\n" THEN TrimStart(Tail(s)) ELSE s

RECURSIVE TrimEnd(_)
TrimEnd(s) ==
    IF s # <<>> /\ s[Len(s)] = "\n" THEN TrimEnd(SubSeq(s, 1, Len(s) - 1)) ELSE s

\* String.prototype.trim
Trim(s) == TrimEnd(TrimStart(s))

\* Array.prototype.join / string.Join
RECURSIVE Join(_, _)
Join(parts, sep) ==
    IF parts = <<>> THEN <<>>
    ELSE IF Len(parts) = 1 THEN parts[1]
    ELSE parts[1] \o sep \o Join(Tail(parts), sep)

\* Array.prototype.filter(Boolean) on texts: the empty text is dropped
FilterBoolean(parts) == SelectSeq(parts, LAMBDA x : x # <<>>)

\* string.IsNullOrWhiteSpace
IsNullOrWhiteSpace(s) == Trim(s) = <<>>

\* `Turn ${turn.turn}:\nUser: ${turn.user_prompt}\nAssistant: ${turn.llm_response}`
RenderTurn(turn) ==
    <<"Turn ", ToString(turn.turn), ":">> \o NL \o <<"User: ", turn.user_prompt>>
      \o NL \o <<"Assistant: ", turn.llm_response>>

\* lines 112-118; a null history and an empty history both give ''
ConversationContext(conversationHistory) ==
    IF Len(conversationHistory) > 0
    THEN NL2 \o <<"Previous conversation:">> \o NL
           \o Join([i \in DOMAIN conversationHistory |->
                      RenderTurn(conversationHistory[i])], NL2)
    ELSE <<>>

\* lines 122-125, 130-131: searchResults is the text ragInstance.search returns
RagContext(searchResults) ==
    IF searchResults # <<>>
    THEN NL2 \o <<"Relevant information from documents:">> \o NL \o searchResults
    ELSE <<>>

\* lines 155-160
FullPrompt(userPrompt, ragContext, conversationContext, instructions) ==
    Trim(Join(FilterBoolean(<<userPrompt, ragContext, conversationContext,
                              instructions>>), NL2))

\* JSON.stringify of a string
JsonString(s) == <<"\"">> \o s \o <<"\"">>

\* the body OllamaAdapter.generate(prompt) posts
OllamaRequest(prompt) == [prompt |-> prompt]

\* the body OpenAIAdapter.generate(prompt) posts
OpenAIRequest(prompt) == [input |-> JsonString(prompt)]

\* the body AnthropicAdapter.generate(instructions, userPrompt, ragContext,
\* conversationContext) posts; its fourth parameter is not used
AnthropicRequest(instructions, userPrompt, ragContext, conversationContext) ==
    [system |-> <<instructions,
                  IF Len(ragContext) > 1 THEN ragContext
                  ELSE <<"No documents found">>>>,
     messages |-> <<userPrompt>>]

\* lines 163-167: the request assemblePrompt has the configured provider's
\* adapter send.  The ollama adapter is called with fullPrompt; every other
\* adapter is called with (instructions, userPrompt, ragContext,
\* conversationHistory), of which OpenAIAdapter.generate(prompt) takes the first
ProviderRequest(provider, userPrompt, searchResults, conversationHistory, instructions) ==
    LET ragContext == RagContext(searchResults)
        conversationContext == ConversationContext(conversationHistory)
        fullPrompt == FullPrompt(userPrompt, ragContext, conversationContext,
                                 instructions)
    IN  IF provider = "ollama" THEN OllamaRequest(fullPrompt)
        ELSE IF provider = "openai" THEN OpenAIRequest(instructions)
        ELSE AnthropicRequest(instructions, userPrompt, ragContext,
                              conversationHistory)

\* PromptService.BuildConversationContext: AppendLine per line, a blank line
\* after each turn, TrimEnd
BuildConversationContext(conversationHistory) ==
    IF Len(conversationHistory) = 0 THEN <<>>
    ELSE TrimEnd(NL2 \o <<"Previous conversation:">> \o NL
                 \o Join([i \in DOMAIN conversationHistory |->
                            <<"Turn ", ToString(conversationHistory[i].turn), ":">> \o NL
                              \o <<"User: ", conversationHistory[i].user_prompt>> \o NL
                              \o <<"Assistant: ", conversationHistory[i].llm_response>>
                              \o NL \o NL], <<>>))

\* PromptService.AssemblePromptAsync: instructions, conversation context,
\* user prompt
AssemblePromptAsync(userPrompt, conversationHistory, instructions) ==
    LET conversationContext == BuildConversationContext(conversationHistory)
    IN  Join((IF IsNullOrWhiteSpace(instructions) THEN <<>> ELSE <<instructions>>)
               \o (IF IsNullOrWhiteSpace(conversationContext) THEN <<>>
                   ELSE <<conversationContext>>)
               \o <<userPrompt>>, NL2)

\* the inputs of an assembly: the service and its configured provider (the
\* .NET service calls Ollama and retrieves no documents), the user prompt,
\* the text the document search returned, the history, the instructions file
Providers == {"ollama", "openai", "anthropic"}
HistoryTurn(n) ==
    [turn |-> n, user_prompt |-> "earlier prompt", llm_response |-> "earlier response"]
Histories ==
    UNION {[1..n -> {HistoryTurn(k) : k \in 1..MaxHistory}] : n \in 0..MaxHistory}
AssemblyInputs ==
    {[stage |-> "in", service |-> sv, provider |-> pr, userPrompt |-> <<p>>,
      searchResults |-> sr, conversationHistory |-> h, instructions |-> ins] :
        sv \in {"node"}, pr \in Providers, p \in Prompts,
        sr \in {<<>>, <<"document chunk">>}, h \in Histories,
        ins \in {<<>>, <<"instructions">>}}
    \cup
    {[stage |-> "in", service |-> sv, provider |-> pr, userPrompt |-> <<p>>,
      searchResults |-> sr, conversationHistory |-> h, instructions |-> ins] :
        sv \in {"dotnet"}, pr \in {"ollama"}, p \in Prompts,
        sr \in {<<>>}, h \in Histories,
        ins \in {<<>>, <<"instructions">>}}

\* assemblePrompt (server.js 108-169) applied to the inputs
AssemblePrompt ==
    /\ assembly.stage = "in" /\ assembly.service = "node"
    /\ assembly' =
         [stage |-> "out", service |-> assembly.service,
          provider |-> assembly.provider, userPrompt |-> assembly.userPrompt,
          searchResults |-> assembly.searchResults,
          conversationHistory |-> assembly.conversationHistory,
          instructions |-> assembly.instructions,
          fullPrompt |-> FullPrompt(assembly.userPrompt,
                                    RagContext(assembly.searchResults),
                                    ConversationContext(assembly.conversationHistory),
                                    assembly.instructions),
          request |-> ProviderRequest(assembly.provider, assembly.userPrompt,
                                      assembly.searchResults,
                                      assembly.conversationHistory,
                                      assembly.instructions)]
    /\ UNCHANGED <<turns, seq, received, pending, response, tampered, result, rag, ragCalls>>

\* PromptService.AssemblePromptAsync and OllamaService.GenerateAsync applied
\* to the inputs
NetAssemblePrompt ==
    /\ assembly.stage = "in" /\ assembly.service = "dotnet"
    /\ LET fullPrompt == AssemblePromptAsync(assembly.userPrompt,
                                             assembly.conversationHistory,
                                             assembly.instructions)
       IN  assembly' =
             [stage |-> "out", service |-> assembly.service,
              provider |-> assembly.provider, userPrompt |-> assembly.userPrompt,
              searchResults |-> assembly.searchResults,
              conversationHistory |-> assembly.conversationHistory,
              instructions |-> assembly.instructions,
              fullPrompt |-> fullPrompt, request |-> OllamaRequest(fullPrompt)]
    /\ UNCHANGED <<turns, seq, received, pending, response, tampered, result, rag, ragCalls>>

----------------------------------------------------------------------------
(* /chat *)

Add(B, e) == B (+) SetToBag({e})
Remove(B, e) == B (-) SetToBag({e})

\* no prompt assembly is under study
NoAssembly == [stage |-> "none"]

\* no global `result` exists before the first assignment
NoResult == ""

NoResponse ==
    [status |-> 0, error |-> "", cause |-> "none", conversationId |-> NoConv,
     turn |-> 0, hashMsg |-> Null]

\* a response body without a turn
NoTurn == 0

\* res.json({response: satiJson, conversationId, trace, hashMsg}): turn is
\* response.turn of the body.  res.json writes the body with JSON.stringify,
\* which writes none of the properties set on an array, so the body of an
\* array answer carries no turn
Ok(q, text, satiTurn, chainHash) ==
    [status |-> 200, error |-> "", cause |-> "none",
     conversationId |-> q.conversationId,
     turn |-> IF text \in ArrayTexts THEN NoTurn ELSE satiTurn,
     hashMsg |-> chainHash]

\* the catch block: console.error(e), then
\* res.status(500).json({error: 'Internal server error'}); cause is the
\* exception logged (an axios error, or one of Thrown and ExpanderThrown; one
\* thrown in ragExpander carries that frame in its stack)
Fail(cause) ==
    [status |-> 500, error |-> "Internal server error", cause |-> cause,
     conversationId |-> NoConv, turn |-> 0, hashMsg |-> Null]

NoThrow == ""
\* what lines 73-98 throw on the inference text: JSON.parse a SyntaxError;
\* satiJson.turn = turn + 1 a TypeError when satiJson is null; on a number, a
\* string or a boolean the assignment is dropped, satiJson.turn is undefined
\* and insertTurn.run fails on the NOT NULL column turn
Thrown(text) ==
    IF text \notin JsonTexts THEN "parse"
    ELSE IF text \in NullTexts THEN "type"
    ELSE IF text \in PrimitiveTexts THEN "constraint"
    ELSE NoThrow

\* res.json(verifyConversation(...)) of the two /verify routes
Verified(c, report) ==
    [status |-> 200, error |-> "", verified |-> c, report |-> report]

\* lines 59-70 and assemblePrompt up to its first await: resolve the
\* conversation id, read the history, search the documents; a search that
\* finds nothing awaits ragExpander, otherwise the handler awaits generate
ChatReceive(c, t, p, includeHistory, hit) ==
    LET used == ConvsOf(turns) \cup {q.conversationId : q \in BagToSet(pending)}
        conversationId == IF c = NoConv THEN randomUUID(used) ELSE c
    IN  /\ received < MaxRequests
        /\ received' = received + 1
        /\ \E h \in IF includeHistory
                     THEN getConversationHistory(turns, conversationId)
                     ELSE {<<>>} :
             pending' = Add(pending,
                            [pc |-> IF hit THEN "generate" ELSE "expander",
                             conversationId |-> conversationId,
                             turn |-> t, prompt |-> p,
                             includeHistory |-> includeHistory,
                             conversationHistory |-> h])
    /\ UNCHANGED <<turns, seq, response, tampered, assembly, result, rag, ragCalls>>

\* what ragExpander and the second search throw on the expander's text
\* (lines 123, 147-149; rag.js 179-185): JSON.parse a SyntaxError, parsed.answer
\* a TypeError when parsed is null, and query.trim() in search a TypeError
\* when the answer is no string.  chunks tells whether the index the server
\* built holds a chunk: initialize sets isLoaded for a folder without PDFs
\* too (rag.js 37-41), and search then returns '' before the trim (rag.js
\* 180-182) and throws on no query
ExpanderThrown(text, chunks) ==
    IF text \notin JsonTexts THEN "ragExpander:parse"
    ELSE IF text \in NullTexts THEN "ragExpander:type"
    ELSE IF text \notin AnswerTexts /\ chunks THEN "search:type"
    ELSE NoThrow

\* ragExpander's generate call returns: JSON.parse(result.response) and
\* parsed.answer, then the second search and the await of the main generate
\* call; an exception ends the request in the handler's catch
ExpanderReturn(q, text, chunks) ==
    /\ BagIn(q, pending) /\ q.pc = "expander"
    /\ IF ExpanderThrown(text, chunks) = NoThrow
       THEN /\ pending' = Add(Remove(pending, q), [q EXCEPT !.pc = "generate"])
            /\ UNCHANGED response
       ELSE /\ pending' = Remove(pending, q)
            /\ response' = Fail(ExpanderThrown(text, chunks))
    /\ UNCHANGED <<turns, seq, received, tampered, assembly, result, rag, ragCalls>>

\* ragExpander's generate call rejects
ExpanderFail(q, e) ==
    /\ BagIn(q, pending) /\ q.pc = "expander"
    /\ pending' = Remove(pending, q)
    /\ response' = Fail("ragExpander:" \o e)
    /\ UNCHANGED <<turns, seq, received, tampered, assembly, result, rag, ragCalls>>

\* a handler that records a placeholder turn when the inference call rejects
GenerateFail_Placeholder(q, e) ==
    /\ BagIn(q, pending) /\ q.pc = "generate"
    /\ pending' = Remove(pending, q)
    /\ response' = Fail(e)
    /\ \E previousChainHash \in getLastChainHash(turns, q.conversationId) :
         LET contentHash == hashTurnContent(q.turn + 1, q.prompt, Null, Null)
         IN  turns' = insertTurn(turns, seq + 1, q.conversationId, q.turn + 1,
                                 q.prompt, Null, Null, contentHash,
                                 createChainHash(contentHash, previousChainHash))
    /\ seq' = seq + 1
    /\ UNCHANGED <<received, tampered, assembly, result, rag, ragCalls>>

\* an inference call without a timeout: the await never settles and the
\* handler stays where it is
GenerateFail_Hang(q, e) ==
    /\ BagIn(q, pending) /\ q.pc = "generate"
    /\ pending' = Add(Remove(pending, q), [q EXCEPT !.pc = "hung"])
    /\ UNCHANGED <<turns, seq, received, response, tampered, assembly, result, rag, ragCalls>>

\* llmClient.generate rejects (provider or network error, axios timeout)
GenerateFail(q, e) ==
    /\ BagIn(q, pending) /\ q.pc = "generate"
    /\ pending' = Remove(pending, q)
    /\ response' = Fail(e)
    /\ UNCHANGED <<turns, seq, received, tampered, assembly, result, rag, ragCalls>>

\* a handler that answers before it inserts, and loses the insert
GenerateReturn_RespondFirst(q, text) ==
    /\ BagIn(q, pending) /\ q.pc = "generate"
    /\ pending' = Remove(pending, q)
    /\ IF Thrown(text) # NoThrow
       THEN response' = Fail(Thrown(text))
       ELSE LET satiTurn == q.turn + 1
                contentHash == hashTurnContent(satiTurn, q.prompt, text,
                                               machineStateOf(text, satiTurn))
            IN  \E previousChainHash \in getLastChainHash(turns, q.conversationId) :
                  response' = Ok(q, text, satiTurn,
                                 createChainHash(contentHash, previousChainHash))
    /\ result' = text
    /\ UNCHANGED <<turns, seq, received, tampered, assembly, rag, ragCalls>>

\* a handler that stores the raw text before it parses it
GenerateReturn_StoreRaw(q, text) ==
    /\ BagIn(q, pending) /\ q.pc = "generate"
    /\ pending' = Remove(pending, q)
    /\ LET satiTurn == q.turn + 1
           ms == IF text \in TurnTexts THEN machineStateOf(text, satiTurn) ELSE Null
           contentHash == hashTurnContent(satiTurn, q.prompt, text, ms)
       IN  \E previousChainHash \in getLastChainHash(turns, q.conversationId) :
             LET chainHash == createChainHash(contentHash, previousChainHash)
             IN  /\ turns' = insertTurn(turns, seq + 1, q.conversationId,
                                        satiTurn, q.prompt, text, ms,
                                        contentHash, chainHash)
                 /\ seq' = seq + 1
                 /\ response' = IF Thrown(text) = NoThrow
                                 THEN Ok(q, text, satiTurn, chainHash)
                                 ELSE Fail(Thrown(text))
    /\ result' = text
    /\ UNCHANGED <<received, tampered, assembly, rag, ragCalls>>

\* an assemblePrompt that yields between the assignment of the shared
\* `result` and its return: the handler gets what the global held before
GenerateReturn_SharedResult(q, text) ==
    LET got == IF result = NoResult THEN text ELSE result
    IN  /\ BagIn(q, pending) /\ q.pc = "generate"
        /\ pending' = Remove(pending, q)
        /\ IF Thrown(got) # NoThrow
           THEN /\ response' = Fail(Thrown(got))
                /\ UNCHANGED <<turns, seq>>
           ELSE LET satiTurn == q.turn + 1
                    ms == machineStateOf(got, satiTurn)
                    contentHash == hashTurnContent(satiTurn, q.prompt, got, ms)
                IN  \E previousChainHash \in getLastChainHash(turns, q.conversationId) :
                      LET chainHash == createChainHash(contentHash, previousChainHash)
                      IN  /\ turns' = insertTurn(turns, seq + 1, q.conversationId,
                                                 satiTurn, q.prompt, got, ms,
                                                 contentHash, chainHash)
                          /\ seq' = seq + 1
                          /\ response' = Ok(q, got, satiTurn, chainHash)
        /\ result' = text
        /\ UNCHANGED <<received, tampered, assembly, rag, ragCalls>>

\* a handler that reads the last chain hash before the latest append to the
\* table took place, and inserts after it
GenerateReturn_StaleRead(q, text) ==
    /\ BagIn(q, pending) /\ q.pc = "generate"
    /\ pending' = Remove(pending, q)
    /\ IF Thrown(text) # NoThrow
       THEN /\ response' = Fail(Thrown(text))
            /\ UNCHANGED <<turns, seq>>
       ELSE LET satiTurn == q.turn + 1
                ms == machineStateOf(text, satiTurn)
                contentHash == hashTurnContent(satiTurn, q.prompt, text, ms)
                earlier == {r \in turns : r.id < seq}
            IN  \E previousChainHash \in getLastChainHash(earlier, q.conversationId) :
                  LET chainHash == createChainHash(contentHash, previousChainHash)
                  IN  /\ turns' = insertTurn(turns, seq + 1, q.conversationId,
                                             satiTurn, q.prompt, text, ms,
                                             contentHash, chainHash)
                      /\ seq' = seq + 1
                      /\ response' = Ok(q, text, satiTurn, chainHash)
    /\ result' = text
    /\ UNCHANGED <<received, tampered, assembly, rag, ragCalls>>

\* llmClient.generate resolves: lines 72-100 run without suspension
GenerateReturn(q, text) ==
    /\ BagIn(q, pending) /\ q.pc = "generate"
    /\ pending' = Remove(pending, q)
    /\ IF Thrown(text) # NoThrow
       THEN /\ response' = Fail(Thrown(text))
            /\ UNCHANGED <<turns, seq>>
       ELSE LET satiTurn == q.turn + 1
                ms == machineStateOf(text, satiTurn)
                contentHash == hashTurnContent(satiTurn, q.prompt, text, ms)
            IN  \E previousChainHash \in getLastChainHash(turns, q.conversationId) :
                  LET chainHash == createChainHash(contentHash, previousChainHash)
                  IN  /\ turns' = insertTurn(turns, seq + 1, q.conversationId,
                                             satiTurn, q.prompt, text, ms,
                                             contentHash, chainHash)
                      /\ seq' = seq + 1
                      /\ response' = Ok(q, text, satiTurn, chainHash)
    /\ result' = text
    /\ UNCHANGED <<received, tampered, assembly, rag, ragCalls>>

\* a Verify that sees the turns of the submissions in flight before their
\* hashes are written
Verify_DirtyRead(c) ==
    LET inFlight == {q \in BagToSet(pending) : q.pc = "generate"}
        dirty == turns \cup
                   {[id |-> seq + 1, conversation_id |-> q.conversationId,
                     turn |-> q.turn + 1, timestamp |-> seq + 1,
                     user_prompt |-> q.prompt,
                     full_prompt |-> Null, llm_response |-> "", machine_state |-> Null,
                     rag_context |-> Null, content_hash |-> Null,
                     chain_hash |-> Null] : q \in inFlight}
    IN  /\ \E report \in verifyConversation(dirty, c) :
             response' = Verified(c, report)
        /\ UNCHANGED <<turns, seq, received, pending, tampered, assembly, result, rag, ragCalls>>

\* GET /verify (c = NoConv) and GET /verify/:conversationId: the handler is
\* synchronous, one stmt.all() and the loop over its rows
Verify(c) ==
    /\ \E report \in verifyConversation(turns, c) :
         response' = Verified(c, report)
    /\ UNCHANGED <<turns, seq, received, pending, tampered, assembly, result, rag, ragCalls>>

----------------------------------------------------------------------------
(* The .NET service (Program.cs, ConversationService.cs): one singleton     *)
(* ConversationService with one connection; the handlers of concurrent      *)
(* requests run on pool threads, so the statements of two InsertTurn calls  *)
(* interleave                                                               *)

\* the instructions file PromptService caches
Instructions == <<"instructions">>

\* Results.Problem(title: ..., statusCode: 500)
Problem(title, cause) ==
    [status |-> 500, error |-> title, cause |-> cause,
     conversationId |-> NoConv, turn |-> 0, hashMsg |-> Null]

\* SELECT chain_hash ... WHERE conversation_id = @c AND turn = @turn LIMIT 1:
\* with no ORDER BY the scan returns the matching row with the lowest id
GetChainHashForTurn(T, c, turn) ==
    LET match == {r \in RowsOf(T, c) : r.turn = turn}
    IN  IF match = {} THEN Null
        ELSE (CHOOSE r \in match : \A o \in match : r.id <= o.id).chain_hash

\* Program.cs 99-119: resolve the id, load the history, assemble the prompt,
\* await GenerateAsync
NetChatReceive(c, t, p, includeHistory) ==
    LET used == ConvsOf(turns) \cup {q.conversationId : q \in BagToSet(pending)}
        \* request.ConversationId ?? Guid.NewGuid().ToString()
        conversationId == IF c = NullConversationId THEN randomUUID(used) ELSE c
    IN  /\ received < MaxNetRequests
        /\ received' = received + 1
        \* !string.IsNullOrEmpty(request.ConversationId) && request.IncludeHistory
        /\ \E h \in IF c \notin {NullConversationId, NoConv} /\ includeHistory
                     THEN getConversationHistory(turns, conversationId)
                     ELSE {<<>>} :
             pending' = Add(pending,
                            [pc |-> "generate", conversationId |-> conversationId,
                             turn |-> t, prompt |-> p,
                             fullPrompt |-> AssemblePromptAsync(<<p>>, h, Instructions)])
    /\ UNCHANGED <<turns, seq, response, tampered, assembly, result, rag, ragCalls>>

\* GenerateAsync throws.  OllamaService wraps an HttpRequestException (no
\* connection, a status that is no success) in an OllamaServiceException,
\* which the handler answers as "LLM Service Error"; the TaskCanceledException
\* of HttpClient.Timeout is no HttpRequestException and reaches the handler's
\* catch (Exception)
NetGenerateFail(q, e) ==
    /\ BagIn(q, pending) /\ q.pc = "generate"
    /\ pending' = Remove(pending, q)
    /\ response' = IF e = "timeout"
                    THEN Problem("Internal Server Error", e)
                    ELSE Problem("LLM Service Error", e)
    /\ UNCHANGED <<turns, seq, received, tampered, assembly, result, rag, ragCalls>>

\* GenerateAsync returns: JsonDocument.Parse, then InsertTurn up to and
\* including its GetLastChainHash query
NetGenerateReturn(q, text) ==
    /\ BagIn(q, pending) /\ q.pc = "generate"
    /\ IF text \notin JsonTexts
       THEN /\ pending' = Remove(pending, q)
            /\ response' = Problem("Invalid LLM Response", "parse")
       ELSE /\ \E previousChainHash \in getLastChainHash(turns, q.conversationId) :
                 pending' = Add(Remove(pending, q),
                                [pc |-> "insert", conversationId |-> q.conversationId,
                                 turn |-> q.turn, prompt |-> q.prompt,
                                 fullPrompt |-> q.fullPrompt, text |-> text,
                                 previousChainHash |-> previousChainHash])
            /\ UNCHANGED response
    /\ UNCHANGED <<turns, seq, received, tampered, assembly, result, rag, ragCalls>>

\* InsertTurn's INSERT (cmd.ExecuteNonQuery); the request keeps the id of the
\* row it inserted
NetInsert(q) ==
    /\ BagIn(q, pending) /\ q.pc = "insert"
    /\ LET nextTurn == q.turn + 1
           contentHash == hashTurnContent(nextTurn, q.prompt, q.text, q.text)
           chainHash == createChainHash(contentHash, q.previousChainHash)
       IN  /\ turns' = turns \cup
                 {[id |-> seq + 1, conversation_id |-> q.conversationId,
                   turn |-> nextTurn, timestamp |-> seq + 1,
                   user_prompt |-> q.prompt,
                   full_prompt |-> q.fullPrompt, llm_response |-> q.text,
                   machine_state |-> q.text, rag_context |-> Null,
                   content_hash |-> contentHash, chain_hash |-> chainHash]}
           /\ seq' = seq + 1
           /\ pending' = Add(Remove(pending, q),
                             [pc |-> "respond", conversationId |-> q.conversationId,
                              turn |-> q.turn, id |-> seq + 1])
    /\ UNCHANGED <<received, response, tampered, assembly, result, rag, ragCalls>>

\* Program.cs 150-162: GetChainHashForTurn(conversationId, nextTurn), Results.Ok
NetRespond(q) ==
    /\ BagIn(q, pending) /\ q.pc = "respond"
    /\ pending' = Remove(pending, q)
    /\ response' = [status |-> 200, error |-> "", cause |-> "none",
                    conversationId |-> q.conversationId, turn |-> q.turn + 1,
                    hashMsg |-> GetChainHashForTurn(turns, q.conversationId,
                                                    q.turn + 1)]
    /\ UNCHANGED <<turns, seq, received, tampered, assembly, result, rag, ragCalls>>

\* VerifyChain 172-224: the report of the scan f; every report carries the
\* five properties of VerificationResult, Message being null but for the
\* empty scan
NetReportOf(f) ==
    LET bad == {i \in DOMAIN f : InvalidAt(f, i)}
    IN  IF Len(f) = 0
        THEN [valid |-> TRUE, totalTurns |-> 0, invalidTurns |-> 0,
              conversationsVerified |-> 0, message |-> <<"No turns to verify">>]
        ELSE [valid |-> bad = {}, totalTurns |-> Len(f),
              invalidTurns |-> Cardinality(bad),
              conversationsVerified |->
                  Cardinality({f[i].conversation_id : i \in DOMAIN f}),
              message |-> Null]

\* VerifyChain(conversationId): null verifies every conversation
VerifyChain(T, c) ==
    {NetReportOf(f) :
        f \in ScanOrders(IF c = NullConversationId THEN T ELSE RowsOf(T, c))}

\* the ids GET /verify/{conversationId?} is called with
NetVerifyIds == {NullConversationId, "c1", "u1"}

\* GET /verify/{conversationId?}: Results.Ok(VerifyChain(conversationId))
NetVerify(c) ==
    /\ \E report \in VerifyChain(turns, c) : response' = Verified(c, report)
    /\ UNCHANGED <<turns, seq, received, pending, tampered, assembly, result, rag, ragCalls>>

NetNext ==
    \/ \E c \in CallerConvIds \cup {NoConv, NullConversationId}, t \in BodyTurns,
          p \in Prompts, includeHistory \in BOOLEAN :
            NetChatReceive(c, t, p, includeHistory)
    \/ \E c \in NetVerifyIds : NetVerify(c)
    \/ \E q \in BagToSet(pending), e \in LLMErrors : NetGenerateFail(q, e)
    \/ \E q \in BagToSet(pending), text \in LLMTexts : NetGenerateReturn(q, text)
    \/ \E q \in BagToSet(pending) : NetInsert(q)
    \/ \E q \in BagToSet(pending) : NetRespond(q)

----------------------------------------------------------------------------
(* SimpleRAG (rag.js): the document index.  A call in flight is suspended   *)
(* at an await; between two awaits a call runs alone                        *)

\* the PDF files fs.readdir lists, and the number of chunks splitIntoChunks
\* makes of each
Documents == {"a.pdf", "b.pdf"}
ChunksIn(file) == IF file = "a.pdf" THEN 2 ELSE 1

\* the word every chunk of the documents contains
ChunkWord == <<"l", "e", "d", "g", "e", "r">>

\* queries: a word of the documents, a query shorter than three characters,
\* and no string at all
Queries == {JsString(ChunkWord), JsString(<<"a", "b">>), JsUndefined}

\* constructor
NewSimpleRAG == [documentChunks |-> <<>>, isLoaded |-> FALSE, loadedFiles |-> {}]

NoCalls == [started |-> 0, inflight |-> {}, returned |-> "none"]

\* the entries loadDocument pushes for a file
ChunksOfFile(file) ==
    [i \in 1..ChunksIn(file) |-> [filename |-> file, chunkIndex |-> i - 1]]

\* chunks.filter(chunk => chunk.filename is / is not one of `files`)
RECURSIVE FilterChunks(_, _, _)
FilterChunks(chunks, files, keep) ==
    IF chunks = <<>> THEN <<>>
    ELSE LET rest == FilterChunks(Tail(chunks), files, keep)
         IN  IF (Head(chunks).filename \in files) = keep
             THEN <<Head(chunks)>> \o rest ELSE rest

LedgerVars == <<turns, seq, received, pending, response, tampered, assembly, result>>

\* initialize() up to its first await: a loaded instance returns at once
\* (17-20).  When the documents directory does not exist (exists false) the
\* call throws before it clears anything (26-28); the catch block sets
\* isLoaded = false and rethrows (66-70), and chunks and file set are kept.
\* Otherwise the call clears the chunks and the file set (31-32) and awaits
\* fs.readdir
RagInitialize(exists) ==
    /\ ragCalls.started < MaxRagCalls
    /\ IF rag.isLoaded
       THEN /\ rag' = rag
            /\ ragCalls' = [ragCalls EXCEPT !.started = @ + 1]
       ELSE IF ~exists
       THEN /\ rag' = [rag EXCEPT !.isLoaded = FALSE]
            /\ ragCalls' = [ragCalls EXCEPT !.started = @ + 1]
       ELSE /\ rag' = [rag EXCEPT !.documentChunks = <<>>, !.loadedFiles = {}]
            /\ ragCalls' = [ragCalls EXCEPT
                              !.started = @ + 1,
                              !.inflight = @ \cup {[op |-> "initialize",
                                                    id |-> ragCalls.started + 1,
                                                    pc |-> "readdir",
                                                    filename |-> ""]}]
    /\ UNCHANGED LedgerVars

\* fs.readdir resolves with the PDF files pdfFiles: with none, the call
\* sets isLoaded = true and returns (37-41); otherwise one loadDocument call
\* per PDF runs up to its first await, and initialize awaits
\* Promise.allSettled
RagReaddirReturn(c, pdfFiles) ==
    /\ c \in ragCalls.inflight /\ c.op = "initialize" /\ c.pc = "readdir"
    /\ IF pdfFiles = {}
       THEN /\ rag' = [rag EXCEPT !.isLoaded = TRUE]
            /\ ragCalls' = [ragCalls EXCEPT !.inflight = @ \ {c}]
       ELSE /\ ragCalls' = [ragCalls EXCEPT
                      !.inflight = (@ \ {c})
                         \cup {[c EXCEPT !.pc = "allSettled"]}
                         \cup {[op |-> "loadDocument", id |-> c.id, pc |-> "stat",
                                filename |-> f] : f \in pdfFiles}]
            /\ UNCHANGED rag
    /\ UNCHANGED LedgerVars

\* fs.readdir rejects: the catch block sets isLoaded = false and rethrows
RagReaddirFail(c) ==
    /\ c \in ragCalls.inflight /\ c.op = "initialize" /\ c.pc = "readdir"
    /\ rag' = [rag EXCEPT !.isLoaded = FALSE]
    /\ ragCalls' = [ragCalls EXCEPT !.inflight = @ \ {c}]
    /\ UNCHANGED LedgerVars

\* loadDocument after fs.stat, fs.readFile and pdfParse resolved: the chunks
\* are pushed to this.documentChunks and the file is added to loadedFiles
RagLoadReturn(c) ==
    /\ c \in ragCalls.inflight /\ c.op \in {"loadDocument", "addDocument"}
    /\ rag' = [rag EXCEPT !.documentChunks = @ \o ChunksOfFile(c.filename),
                          !.loadedFiles = @ \cup {c.filename}]
    /\ ragCalls' = [ragCalls EXCEPT !.inflight = @ \ {c}]
    /\ UNCHANGED LedgerVars

\* loadDocument rejects (fs.stat, fs.readFile or pdfParse fails, or no text),
\* or returns at line 102 because the text gave no chunk: nothing is pushed
RagLoadFail(c) ==
    /\ c \in ragCalls.inflight /\ c.op \in {"loadDocument", "addDocument"}
    /\ ragCalls' = [ragCalls EXCEPT !.inflight = @ \ {c}]
    /\ UNCHANGED <<rag, LedgerVars>>

\* Promise.allSettled resolves once every loadDocument of the call settled
RagAllSettled(c) ==
    /\ c \in ragCalls.inflight /\ c.op = "initialize" /\ c.pc = "allSettled"
    /\ \A l \in ragCalls.inflight : ~(l.op = "loadDocument" /\ l.id = c.id)
    /\ rag' = [rag EXCEPT !.isLoaded = TRUE]
    /\ ragCalls' = [ragCalls EXCEPT !.inflight = @ \ {c}]
    /\ UNCHANGED LedgerVars

\* addDocument(filename) up to the first await of its loadDocument
RagAddDocument(f) ==
    /\ ragCalls.started < MaxRagCalls
    /\ ragCalls' = [ragCalls EXCEPT
                      !.started = @ + 1,
                      !.inflight = @ \cup {[op |-> "addDocument",
                                            id |-> ragCalls.started + 1,
                                            pc |-> "stat", filename |-> f]}]
    /\ UNCHANGED <<rag, LedgerVars>>

\* removeDocument(filename)
RagRemoveDocument(f) ==
    /\ rag' = [rag EXCEPT !.documentChunks = FilterChunks(@, {f}, FALSE),
                          !.loadedFiles = @ \ {f}]
    /\ UNCHANGED <<ragCalls, LedgerVars>>

\* clear()
RagClear ==
    /\ rag' = NewSimpleRAG
    /\ UNCHANGED <<ragCalls, LedgerVars>>

\* what search(query) returns on the chunks given: '' when not loaded or
\* without chunks, a TypeError from query.trim() when query is no string,
\* '' for a query shorter than three characters or without a match
SearchResult(isLoaded, chunks, query) ==
    IF ~isLoaded \/ chunks = <<>> THEN ""
    ELSE IF query.type # "string" THEN "TypeError"
    ELSE IF Len(query.text) < 3 THEN ""
    ELSE IF query.text = ChunkWord THEN "found"
    ELSE ""

\* search(query)
RagSearch(query) ==
    /\ ragCalls' = [ragCalls EXCEPT
                      !.returned = SearchResult(rag.isLoaded, rag.documentChunks, query)]
    /\ UNCHANGED <<rag, LedgerVars>>

\* searchInDocument(query, filename): this.documentChunks is replaced by the
\* file's chunks for the search and restored after it returns; when search
\* throws, the assignment that restores it is not reached
RagSearchInDocument(query, f) ==
    LET documentChunks == FilterChunks(rag.documentChunks, {f}, TRUE)
        found == SearchResult(rag.isLoaded, documentChunks, query)
    IN  /\ IF documentChunks = <<>>
           THEN /\ ragCalls' = [ragCalls EXCEPT !.returned = ""]
                /\ UNCHANGED rag
           ELSE /\ ragCalls' = [ragCalls EXCEPT !.returned = found]
                /\ rag' = IF found = "TypeError"
                          THEN [rag EXCEPT !.documentChunks = documentChunks]
                          ELSE rag
        /\ UNCHANGED LedgerVars

----------------------------------------------------------------------------
(* A direct edit of the database file (outside the service): the properties *)
(* about tampering concern one altered column of one stored turn          *)

TamperValues(col) ==
    IF col = "turn" THEN 1..(MaxTurn + 1)
    ELSE IF col = "timestamp" THEN {0}
    ELSE IF col \in {"full_prompt", "rag_context"} THEN {<<"x">>}
    ELSE IF col = "machine_state" THEN {<<"x", 0>>, Null}
    ELSE {"x", ""}

Tamper(id, col, v) ==
    /\ tampered = {}
    /\ \E r \in turns :
         /\ r.id = id
         /\ r[col] # v
         /\ turns' = (turns \ {r}) \cup {[r EXCEPT ![col] = v]}
    /\ tampered' = {<<id, col>>}
    /\ UNCHANGED <<seq, received, pending, response, assembly, result, rag, ragCalls>>

----------------------------------------------------------------------------

Init ==
    /\ turns = {}
    /\ seq = 0
    /\ received = 0
    /\ pending = EmptyBag
    /\ response = NoResponse
    /\ tampered = {}
    /\ assembly = NoAssembly
    /\ result = NoResult
    /\ rag = NewSimpleRAG
    /\ ragCalls = NoCalls

Next ==
    \/ \E c \in CallerConvIds \cup {NoConv}, t \in BodyTurns, p \in Prompts,
          includeHistory \in BOOLEAN, hit \in BOOLEAN :
            ChatReceive(c, t, p, includeHistory, hit)
    \* on the texts of LLMTexts the step is the same with and without chunks
    \/ \E q \in BagToSet(pending), text \in LLMTexts, chunks \in {TRUE} :
         ExpanderReturn(q, text, chunks)
    \/ \E q \in BagToSet(pending), e \in LLMErrors : ExpanderFail(q, e)
    \/ \E q \in BagToSet(pending), e \in LLMErrors : GenerateFail(q, e)
    \/ \E q \in BagToSet(pending), text \in LLMTexts : GenerateReturn(q, text)

\* the service alone
Spec == Init /\ [][Next]_vars

\* the service, and one direct edit of a stored column
TamperNext ==
    \/ Next /\ received' <= MaxEdited
    \/ \E id \in 1..seq, col \in HashedColumns \cup UnhashedColumns :
          \E v \in TamperValues(col) : Tamper(id, col, v)

TamperSpec == Init /\ [][TamperNext]_vars

\* the .NET service alone
NetSpec == Init /\ [][NetNext]_vars

\* the prompt assemblers, applied to every input
PromptInit ==
    /\ turns = {}
    /\ seq = 0
    /\ received = 0
    /\ pending = EmptyBag
    /\ response = NoResponse
    /\ tampered = {}
    /\ assembly \in AssemblyInputs
    /\ result = NoResult
    /\ rag = NewSimpleRAG
    /\ ragCalls = NoCalls

PromptNext == AssemblePrompt \/ NetAssemblePrompt

PromptSpec == PromptInit /\ [][PromptNext]_vars

\* the service with its /verify routes in use
VerifyNext ==
    \/ Next /\ received' <= MaxVerified
    \/ \E c \in VerifyIds : Verify(c)

VerifySpec == Init /\ [][VerifyNext]_vars

\* the settling of an awaited inference call of some submission in flight:
\* it resolves or it rejects, the axios timeout being one of the rejections
Settle ==
    \E q \in BagToSet(pending) :
      \/ \E text \in LLMTexts, chunks \in BOOLEAN : ExpanderReturn(q, text, chunks)
      \/ \E e \in LLMErrors : ExpanderFail(q, e)
      \/ \E e \in LLMErrors : GenerateFail(q, e)
      \/ \E text \in LLMTexts : GenerateReturn(q, text)

LiveNext == Next /\ received' <= MaxLive

\* the service with every inference call settling: each adapter posts with
\* timeout (config.timeout || 300000), so an awaited call cannot stay open
\* forever, and the event loop then runs the handler's continuation
LiveSpec == Init /\ [][LiveNext]_vars /\ WF_vars(Settle)

----------------------------------------------------------------------------
(* The forms of `turn` in a request body.  express.json() hands the handler *)
(* whatever JSON value the body carries                                     *)

\* turn + 1: addition of numbers, concatenation when turn is a string
\* ("1" + 1 is "11"), NaN when turn is undefined
PlusOne(v) ==
    IF v.type = "string" THEN JsString(v.text \o <<"1">>)
    ELSE IF v.type = "undefined" \/ v = JsNaN THEN JsNaN
    ELSE JsNumber(ToNumber(v.text) + 1)

\* JSON.stringify of a value: a number as its digits, NaN as null, a string
\* between quotes
JsonLiteral(v) ==
    IF v = JsNaN THEN <<"null">>
    ELSE IF v.type = "string" THEN <<"\"">> \o v.text \o <<"\"">>
    ELSE v.text

\* the value bound to column `turn INTEGER NOT NULL`: NaN is bound as NULL
\* and violates the constraint
ViolatesNotNull(v) == v = JsNaN

\* what the column holds and a SELECT reads back: INTEGER affinity converts
\* a text of digits to the integer it denotes
ColumnInteger(v) == ToNumber(v.text)

\* hashTurnContent on JS values: the digest of JSON.stringify({turn, ...})
hashTurnContentJs(v, userPrompt, llmResponse, machineState) ==
    SHA256(<<JsonLiteral(v), userPrompt, llmResponse, machineState>>)

\* JSON.stringify(satiJson) after satiJson.turn = v
machineStateJs(text, v) ==
    IF text \in ArrayTexts THEN <<text>> ELSE <<text, JsonLiteral(v)>>

\* the values of `turn` the bodies carry: a number, a numeric string, none
BodyTurnForms ==
    {JsNumber(n) : n \in BodyTurns} \cup {JsString(NumberToString(n)) : n \in BodyTurns}
      \cup {JsUndefined}

\* POST /chat up to the await, with any form of turn
BodyChatReceive(c, v, p) ==
    LET used == ConvsOf(turns) \cup {q.conversationId : q \in BagToSet(pending)}
        conversationId == IF c = NoConv THEN randomUUID(used) ELSE c
    IN  /\ received < MaxBody
        /\ received' = received + 1
        /\ pending' = Add(pending, [pc |-> "generate",
                                    conversationId |-> conversationId,
                                    turn |-> v, prompt |-> p])
        /\ UNCHANGED <<turns, seq, response, tampered, assembly, result, rag, ragCalls>>

\* the inference call rejects
BodyGenerateFail(q, e) ==
    /\ BagIn(q, pending) /\ q.pc = "generate"
    /\ pending' = Remove(pending, q)
    /\ response' = Fail(e)
    /\ UNCHANGED <<turns, seq, received, tampered, assembly, result, rag, ragCalls>>

\* the inference call returns: lines 72-100, insertTurn.run throwing on the
\* NOT NULL constraint
BodyGenerateReturn(q, text) ==
    /\ BagIn(q, pending) /\ q.pc = "generate"
    /\ pending' = Remove(pending, q)
    /\ IF Thrown(text) # NoThrow
       THEN /\ response' = Fail(Thrown(text))
            /\ UNCHANGED <<turns, seq>>
       ELSE LET satiTurn == PlusOne(q.turn)
                ms == machineStateJs(text, satiTurn)
                contentHash == hashTurnContentJs(satiTurn, q.prompt, text, ms)
            IN  IF ViolatesNotNull(satiTurn)
                THEN /\ response' = Fail("constraint")
                     /\ UNCHANGED <<turns, seq>>
                ELSE \E previousChainHash \in getLastChainHash(turns, q.conversationId) :
                       LET chainHash == createChainHash(contentHash, previousChainHash)
                       IN  /\ turns' = insertTurn(turns, seq + 1, q.conversationId,
                                                  ColumnInteger(satiTurn), q.prompt,
                                                  text, ms, contentHash, chainHash)
                           /\ seq' = seq + 1
                           /\ response' = [Ok(q, text, satiTurn, chainHash)
                                             EXCEPT !.cause = "stored"]
    /\ result' = text
    /\ UNCHANGED <<received, tampered, assembly, rag, ragCalls>>

BodyNext ==
    \/ \E c \in CallerConvIds \cup {NoConv}, v \in BodyTurnForms, p \in Prompts :
         BodyChatReceive(c, v, p)
    \/ \E q \in BagToSet(pending), e \in LLMErrors : BodyGenerateFail(q, e)
    \/ \E q \in BagToSet(pending), text \in LLMTexts : BodyGenerateReturn(q, text)

\* the service with request bodies that carry any form of turn
BodySpec == Init /\ [][BodyNext]_vars

----------------------------------------------------------------------------
(* The service with inference calls whose answers differ *)

SharedNext ==
    \/ \E c \in CallerConvIds \cup {NoConv}, t \in BodyTurns, p \in Prompts,
          includeHistory \in BOOLEAN, hit \in BOOLEAN :
            ChatReceive(c, t, p, includeHistory, hit) /\ received' <= MaxShared
    \/ \E q \in BagToSet(pending), text \in AllTexts, chunks \in BOOLEAN :
         ExpanderReturn(q, text, chunks)
    \/ \E q \in BagToSet(pending), e \in LLMErrors : ExpanderFail(q, e)
    \/ \E q \in BagToSet(pending), e \in LLMErrors : GenerateFail(q, e)
    \/ \E q \in BagToSet(pending), text \in AllTexts :
         GenerateReturn(q, text)

SharedSpec == Init /\ [][SharedNext]_vars

----------------------------------------------------------------------------
(* Direct edits of the chain itself: a stored chain_hash replaced, or a row *)
(* deleted, in a table written by submissions to one conversation           *)

\* the numbers of the previous turn the submissions declare
ChainTurns == 0..(MaxChain - 1)

\* values a chain_hash is replaced with: a digest of something else, or the
\* chain hash of another stored turn
ForgedChainHashes(T) == {SHA256(<<<<"x">>, <<"x">>>>)} \cup {r.chain_hash : r \in T}

\* DELETE FROM turns WHERE id = ?, run on the database file
DeleteTurn(id) ==
    /\ tampered = {}
    /\ \E r \in turns : r.id = id /\ turns' = turns \ {r}
    /\ tampered' = {<<id, "deleted">>}
    /\ UNCHANGED <<seq, received, pending, response, assembly, result, rag, ragCalls>>

ChainNext ==
    \/ \E t \in ChainTurns, p \in Prompts :
         ChatReceive("c1", t, p, FALSE, TRUE) /\ received' <= MaxChain
    \/ \E q \in BagToSet(pending), e \in LLMErrors : GenerateFail(q, e)
    \/ \E q \in BagToSet(pending), text \in LLMTexts : GenerateReturn(q, text)
    \/ \E id \in 1..seq : \E v \in ForgedChainHashes(turns) :
         Tamper(id, "chain_hash", v)
    \/ \E id \in 1..seq : DeleteTurn(id)

\* the service, and one direct edit of the chain
ChainSpec == Init /\ [][ChainNext]_vars

----------------------------------------------------------------------------
(* SimpleRAG alone *)

\* initialize() calls only, overlapping ones included
RagInitNext ==
    \/ \E exists \in BOOLEAN : RagInitialize(exists)
    \/ \E c \in ragCalls.inflight, pdfFiles \in SUBSET Documents :
         RagReaddirReturn(c, pdfFiles)
    \/ \E c \in ragCalls.inflight : RagReaddirFail(c)
    \/ \E c \in ragCalls.inflight : RagLoadReturn(c)
    \/ \E c \in ragCalls.inflight : RagLoadFail(c)
    \/ \E c \in ragCalls.inflight : RagAllSettled(c)

RagInitSpec == Init /\ [][RagInitNext]_vars

\* every operation of the instance
RagNext ==
    \/ RagInitNext
    \/ \E f \in Documents : RagAddDocument(f)
    \/ \E f \in Documents : RagRemoveDocument(f)
    \/ RagClear
    \/ \E query \in Queries : RagSearch(query)
    \/ \E query \in Queries, f \in Documents : RagSearchInDocument(query, f)

RagSpec == Init /\ [][RagNext]_vars

----------------------------------------------------------------------------
(* Properties *)

Untampered == tampered = {}
RowTampered(r) == \E col \in HashedColumns : <<r.id, col>> \in tampered

\* the row an append step adds
NewRow == CHOOSE r \in turns' : r.id = seq'

\* rows of the conversation R with the highest turn below r's
NextLower(R, r) ==
    {o \in R : o.turn < r.turn /\ \A k \in R : k.turn < r.turn => k.turn <= o.turn}

\* C1: in a table written by /chat alone, every turn's chain hash is
\* H(content_hash + p), p being the chain hash of the turn with the next-lower
\* index of its conversation, or "0" for the turn with the lowest index
C1_ChainLinksNextLower ==
    Untampered =>
      \A r \in turns :
        LET low == NextLower(RowsOf(turns, r.conversation_id), r)
        IN  IF low = {}
            THEN r.chain_hash = createChainHash(r.content_hash, Null)
            ELSE \E o \in low :
                   r.chain_hash = createChainHash(r.content_hash, o.chain_hash)

\* C2: in a table written by /chat alone, no two turns of one conversation
\* have chain hashes computed from the same previous chain hash
C2_NoFork ==
    Untampered =>
      \A r1, r2 \in turns :
        (r1 # r2 /\ r1.conversation_id = r2.conversation_id)
          => PrevOf(r1.chain_hash) # PrevOf(r2.chain_hash)

\* a step in which submission q appends while exactly one turn of its
\* conversation was appended since q read the history: q and the submission
\* that wrote that turn were both started before either had appended
SimultaneousAppend(q, text) ==
    /\ Untampered
    /\ q.includeHistory
    /\ Cardinality(RowsOf(turns, q.conversationId)) = Len(q.conversationHistory) + 1
    /\ GenerateReturn(q, text)

\* C3: two simultaneous submissions to one conversation leave two turns with
\* sequential indices N and N+1, chain_hash(N+1) derived from chain_hash(N),
\* and never two turns derived from the same previous hash
C3_SimultaneousSequential ==
    [][\A q \in BagToSet(pending), text \in TurnTexts :
         SimultaneousAppend(q, text) =>
           LET R == RowsOf(turns, q.conversationId)
               first == CHOOSE r \in R : \A o \in R : o.id <= r.id
           IN  /\ NewRow.turn = first.turn + 1
               /\ PrevOf(NewRow.chain_hash) = first.chain_hash
               /\ PrevOf(NewRow.chain_hash) # PrevOf(first.chain_hash)]_vars

\* C4: in every conversation the stored turn indices are exactly 1..N
C4_GaplessIndices ==
    Untampered =>
      \A c \in ConvsOf(turns) :
        /\ {r.turn : r \in RowsOf(turns, c)} = 1..Cardinality(RowsOf(turns, c))
        /\ \A r1, r2 \in RowsOf(turns, c) : r1.turn = r2.turn => r1 = r2

\* C5: appending a turn whose (conversation_id, turn) is already stored fails
\* with an error response and leaves the table unchanged
C5_DuplicateRejected ==
    [][\A q \in BagToSet(pending), text \in TurnTexts :
         (/\ GenerateReturn(q, text)
          /\ \E r \in turns : /\ r.conversation_id = q.conversationId
                              /\ r.turn = q.turn + 1)
           => /\ turns' = turns
              /\ response'.status # 200]_vars

\* C6: every append adds a turn whose index is greater than the index of
\* every turn already stored for its conversation
C6_IncreasingAppend ==
    [][(Untampered /\ turns' # turns /\ tampered' = tampered) =>
         \A r \in RowsOf(turns, NewRow.conversation_id) : r.turn < NewRow.turn]_vars

\* C7: once a hashed column (turn, user_prompt, llm_response, machine_state)
\* of a stored turn has been changed, every Verify that scans the turn
\* reports valid = false and invalidTurns >= 1
C7_TamperDetected ==
    \A r \in turns :
      RowTampered(r) =>
        \A rep \in verifyConversation(turns, r.conversation_id)
                     \cup verifyConversation(turns, NoConv) :
          rep.valid = FALSE /\ rep.invalidTurns >= 1

C7_Witness ==
    \E r \in turns :
      /\ <<r.id, "llm_response">> \in tampered
      /\ Cardinality(RowsOf(turns, r.conversation_id)) >= 2
      /\ \E rep \in verifyConversation(turns, r.conversation_id) :
           rep.valid = FALSE /\ rep.invalidTurns >= 1

\* a conversation whose every submission declared the number of the turn
\* stored last: the k-th row appended carries turn k
HonestlyWritten(c) ==
    \A r \in RowsOf(turns, c) :
      r.turn = Cardinality({o \in RowsOf(turns, c) : o.id <= r.id})

OnlyContentAltered(c) ==
    /\ Cardinality(tampered) = 1
    /\ \E r \in RowsOf(turns, c), col \in ContentColumns : tampered = {<<r.id, col>>}

\* C8: when one turn of an honestly written conversation has one content
\* column altered, Verify of the conversation reports exactly one invalid
\* turn, whatever number of turns follow it
C8_SingleInvalidTurn ==
    \A c \in ConvsOf(turns) :
      (HonestlyWritten(c) /\ OnlyContentAltered(c)) =>
        \A rep \in verifyConversation(turns, c) :
          /\ rep.invalidTurns = 1
          /\ rep.valid = FALSE
          /\ rep.totalTurns = Cardinality(RowsOf(turns, c))

\* turn 1's response altered in a two-turn conversation:
\* totalTurns 2, invalidTurns 1, valid false
C8_Witness ==
    \E c \in ConvsOf(turns) :
      /\ HonestlyWritten(c)
      /\ \E r \in RowsOf(turns, c) :
           r.turn = 1 /\ tampered = {<<r.id, "llm_response">>}
      /\ verifyConversation(turns, c) =
           {[valid |-> FALSE, totalTurns |-> 2, invalidTurns |-> 1,
             conversationsVerified |-> 1]}

C10_InferenceFailureWritesNothing ==
    [][\A q \in BagToSet(pending), e \in LLMErrors :
         GenerateFail(q, e) =>
           /\ turns' = turns
           /\ seq' = seq
           /\ response'.status = 500
           /\ response'.error # ""]_vars

C10_Witness ==
    /\ response = Fail("timeout")
    /\ turns # {}
    /\ pending # EmptyBag

\* C11: a submission whose inference text does not parse as JSON, or parses
\* to a value that cannot carry the turn (null, a number, a string, a
\* boolean), is answered with an error, and no turn is stored for it
C11_UnparsableWritesNothing ==
    [][\A q \in BagToSet(pending), text \in AllTexts \ TurnTexts :
         GenerateReturn(q, text) =>
           /\ turns' = turns
           /\ seq' = seq
           /\ response'.status = 500]_vars

\* the main inference call of a submission returned unparsable text after
\* a turn had been stored: the failure is answered and one turn is stored
C11_Witness ==
    /\ response = Fail("parse")
    /\ Cardinality(turns) = 1
    /\ received = 2
    /\ pending = EmptyBag

\* what the caller receives of a failure response: the status and the JSON
\* body (the cause is written to the server's console only)
FailureBody(r) == [status |-> r.status, error |-> r.error]

\* C12: the failure response for a malformed model output differs from the
\* failure response for an inference-provider failure
C12_DistinctInvalidResponse ==
    [][\A q \in BagToSet(pending), text \in LLMTexts \ JsonTexts :
         GenerateReturn(q, text) =>
           \A e \in LLMErrors : FailureBody(response') # FailureBody(Fail(e))]_vars

\* C13: when the query-expansion call of a submission fails, or returns text
\* that does not parse, no error is answered and the submission goes on to
\* its main inference call
C13_RetrievalFailureNonFatal ==
    [][\A q \in BagToSet(pending) :
         (\/ \E e \in LLMErrors : ExpanderFail(q, e)
          \/ \E text \in LLMTexts \ JsonTexts, chunks \in BOOLEAN :
               ExpanderReturn(q, text, chunks))
           => /\ response' = response
              /\ BagIn([q EXCEPT !.pc = "generate"], pending')]_vars

\* C14: a /chat call answered with success has added exactly one row, the
\* row of its turn (turn + 1, the turn of the response body when the body
\* carries one), and the row is in the table in the state in which the
\* success response exists
C14_SuccessMeansOneRow ==
    [][\A q \in BagToSet(pending), text \in AllTexts :
         (GenerateReturn(q, text) /\ response'.status = 200) =>
           /\ turns \subseteq turns'
           /\ Cardinality(turns' \ turns) = 1
           /\ \A r \in turns' \ turns :
                /\ r.conversation_id = response'.conversationId
                /\ r.turn = q.turn + 1
                /\ text \notin ArrayTexts => response'.turn = r.turn
                /\ r.chain_hash = response'.hashMsg
                /\ r.user_prompt = q.prompt
                /\ r.llm_response = text]_vars

\* a second submission was answered with success and its row is stored
C14_Witness ==
    /\ response.status = 200
    /\ Cardinality(turns) = 2
    /\ \E r \in turns : /\ r.id = 2
                         /\ r.chain_hash = response.hashMsg
                         /\ r.conversation_id = response.conversationId

\* C15: no step of the service (/chat with its history read, /verify) updates
\* or deletes a stored turn: every row of a state is a row of the next state
C15_TurnsImmutable ==
    [][\A r \in turns : r \in turns']_vars

\* two turns are stored, the first of them still as it was inserted, after
\* appends and a Verify of the whole table
C15_Witness ==
    /\ Cardinality(turns) = 2
    /\ \E r \in turns :
         /\ r.id = 1
         /\ r.content_hash = hashTurnContent(r.turn, r.user_prompt,
                                             r.llm_response, r.machine_state)
    /\ response = Verified(NoConv, [valid |-> TRUE, totalTurns |-> 2,
                                    invalidTurns |-> 0,
                                    conversationsVerified |-> 2])

\* C16: a Verify returns the one report every Verify of the same argument
\* returns on the store as it is; run directly after a Verify of the same
\* argument (the store not modified in between), it returns the same report
C16_VerifyRepeatable ==
    [][\A c \in VerifyIds :
         Verify(c) =>
           /\ \A report \in verifyConversation(turns, c) :
                response' = Verified(c, report)
           /\ ("report" \in DOMAIN response /\ response.verified = c)
                => response' = response]_vars

\* a Verify answered on a conversation that holds two turns with the same
\* turn number, the second chained to the first
C16_Witness ==
    /\ \E r1, r2 \in RowsOf(turns, "c1") :
         /\ r1.id < r2.id
         /\ r1.turn = r2.turn
         /\ PrevOf(r2.chain_hash) = r1.chain_hash
    /\ response = Verified("c1", [valid |-> TRUE, totalTurns |-> 2,
                                  invalidTurns |-> 0,
                                  conversationsVerified |-> 1])

ReportFields == {"valid", "totalTurns", "invalidTurns", "conversationsVerified"}

\* C17: on every table content, edited rows included, Verify returns a
\* report that carries valid, totalTurns, invalidTurns and
\* conversationsVerified
C17_StructuredReport ==
    \A c \in VerifyIds :
      \A report \in verifyConversation(turns, c) :
        ReportFields \subseteq DOMAIN report

\* the rows Verify(c) scans, in scan order
ScanOf(c) ==
    CHOOSE f \in ScanOrders(IF c = NoConv THEN turns ELSE RowsOf(turns, c)) : TRUE

\* row i of scan f has a stored content hash that is not the hash of its
\* hashed columns
ContentMismatch(f, i) ==
    f[i].content_hash # hashTurnContent(f[i].turn, f[i].user_prompt,
                                        f[i].llm_response, f[i].machine_state)

\* row i of scan f has a stored chain hash that is not the hash of its
\* stored content hash and the chain hash of the row scanned before it in
\* its conversation
ChainMismatch(f, i) ==
    f[i].chain_hash # createChainHash(f[i].content_hash, PrevHashAt(f, i))

\* C18: Verify's report gives totalTurns as the number of turns scanned,
\* invalidTurns as the number of scanned turns with a content or chain
\* mismatch (a turn with both counted once), conversationsVerified as the
\* number of conversation ids scanned, and valid as invalidTurns = 0; an
\* empty scan is reported valid with totalTurns 0 (and, as every scan, with
\* its two counts)
C18_ReportCounts ==
    \A c \in VerifyIds :
      \A report \in verifyConversation(turns, c) :
        LET f == ScanOf(c)
            bad == {i \in DOMAIN f : ContentMismatch(f, i) \/ ChainMismatch(f, i)}
        IN  /\ report.totalTurns = Len(f)
            /\ report.valid = (bad = {})
            /\ Len(f) = 0 => (report.valid /\ report.totalTurns = 0)
            /\ "invalidTurns" \in DOMAIN report
            /\ report.invalidTurns = Cardinality(bad)
            /\ "conversationsVerified" \in DOMAIN report
            /\ report.conversationsVerified =
                 Cardinality({f[k].conversation_id : k \in DOMAIN f})
            /\ report.valid = (report.invalidTurns = 0)

\* C18 on the scans that are not empty: the report carries the two counts
\* and they are the numbers the claim names
C18_ReportCountsNonEmpty ==
    \A c \in VerifyIds :
      \A report \in verifyConversation(turns, c) :
        LET f == ScanOf(c)
            bad == {i \in DOMAIN f : ContentMismatch(f, i) \/ ChainMismatch(f, i)}
        IN  Len(f) > 0 =>
              /\ report.totalTurns = Len(f)
              /\ report.invalidTurns = Cardinality(bad)
              /\ report.conversationsVerified =
                   Cardinality({f[k].conversation_id : k \in DOMAIN f})
              /\ report.valid = (report.invalidTurns = 0)

\* C19: a /chat step that appends to conversation A leaves every other
\* conversation B as it was: B's stored turns, B's last chain hash and the
\* report of Verify(B); and the turn it appends to A is chained to the last
\* chain hash of A's own turns, whatever other conversations hold
C19_ConversationsIndependent ==
    [][\A q \in BagToSet(pending), text \in TurnTexts :
         GenerateReturn(q, text) =>
           /\ \A b \in ConvsOf(turns) \ {q.conversationId} :
                /\ RowsOf(turns', b) = RowsOf(turns, b)
                /\ getLastChainHash(turns', b) = getLastChainHash(turns, b)
                /\ verifyConversation(turns', b) = verifyConversation(turns, b)
           /\ LET own == RowsOf(turns, q.conversationId)
              IN  PrevOf(NewRow.chain_hash) =
                    IF own = {} THEN Genesis
                    ELSE (CHOOSE r \in TopRows(own) : TRUE).chain_hash]_vars

\* turns of conversation c1 were appended before and after a turn of another
\* conversation, and the second is chained to the first
C19_Witness ==
    \E r1, r2, r3 \in turns :
      /\ r1.id = 1 /\ r2.id = 2 /\ r3.id = 3
      /\ r1.conversation_id = "c1" /\ r3.conversation_id = "c1"
      /\ r2.conversation_id # "c1"
      /\ PrevOf(r3.chain_hash) = r1.chain_hash
      /\ PrevOf(r2.chain_hash) = Genesis

\* C20: a Verify that runs while submissions are in flight leaves the table
\* as it is and answers with the report of the table as it stands at that
\* step, a table whose every row was inserted whole by a finished append
C20_VerifyPointInTime ==
    [][\A c \in VerifyIds :
         Verify(c) =>
           /\ turns' = turns
           /\ response'.report \in verifyConversation(turns, c)
           /\ \A r \in turns :
                /\ r.content_hash = hashTurnContent(r.turn, r.user_prompt,
                                                    r.llm_response, r.machine_state)
                /\ r.chain_hash = createChainHash(r.content_hash,
                                                  PrevOf(r.chain_hash))]_vars

\* a Verify of the whole table answered with one turn stored while another
\* submission awaits its inference call
C20_Witness ==
    /\ Cardinality(turns) = 1
    /\ \E q \in BagToSet(pending) : q.pc = "generate"
    /\ response = Verified(NoConv, [valid |-> TRUE, totalTurns |-> 1,
                                    invalidTurns |-> 0,
                                    conversationsVerified |-> 1])

\* C21: the chain hash a successful /chat call returns is the chain_hash of
\* the row the call appended, also when the conversation holds another row
\* with the same turn number (.NET service)
C21_ReturnsNewChainHash ==
    [][\A q \in BagToSet(pending) :
         NetRespond(q) =>
           \E r \in turns : r.id = q.id /\ response'.hashMsg = r.chain_hash]_vars

\* C22: a submission without conversationId is given an id that no stored
\* turn and no other submission carries; its turn is stored under that id,
\* the id is returned, and the turn is chained to the genesis value "0"
C22_FreshConversation ==
    [][/\ \A t \in BodyTurns, p \in Prompts, ih \in BOOLEAN, hit \in BOOLEAN :
            ChatReceive(NoConv, t, p, ih, hit) =>
              \A q \in BagToSet(pending' (-) pending) :
                /\ q.conversationId # NoConv
                /\ q.conversationId \notin ConvsOf(turns)
                /\ \A o \in BagToSet(pending) : o.conversationId # q.conversationId
       /\ \A q \in BagToSet(pending), text \in TurnTexts :
            (GenerateReturn(q, text) /\ q.conversationId \notin CallerConvIds) =>
              /\ RowsOf(turns, q.conversationId) = {}
              /\ NewRow.conversation_id = q.conversationId
              /\ response'.conversationId = q.conversationId
              /\ NewRow.chain_hash = createChainHash(NewRow.content_hash, Null)
              /\ PrevOf(NewRow.chain_hash) = Genesis]_vars

\* the second submission without conversationId was stored under a second
\* generated id, chained to "0", and answered with that id
C22_Witness ==
    /\ \E r \in turns : r.conversation_id = "u1"
    /\ \E r \in turns : /\ r.conversation_id = "u2"
                         /\ r.id = seq
                         /\ PrevOf(r.chain_hash) = Genesis
    /\ response.status = 200
    /\ response.conversationId = "u2"

\* text `piece` occurs in `text` at position i
OccursAt(piece, text, i) ==
    /\ i + Len(piece) - 1 <= Len(text)
    /\ SubSeq(text, i, i + Len(piece) - 1) = piece

Occurs(piece, text) == \E i \in 1..Len(text) : OccursAt(piece, text, i)

\* the first position at which `piece` occurs in `text`; 0 when it does not
FirstPos(piece, text) ==
    IF Occurs(piece, text)
    THEN CHOOSE i \in 1..Len(text) :
           OccursAt(piece, text, i) /\ \A k \in 1..(i-1) : ~OccursAt(piece, text, k)
    ELSE 0

\* the texts of a request body
RequestTexts(request) ==
    IF "prompt" \in DOMAIN request THEN {request.prompt}
    ELSE IF "input" \in DOMAIN request THEN {request.input}
    ELSE {request.system[i] : i \in DOMAIN request.system}
           \cup {request.messages[i] : i \in DOMAIN request.messages}

Sent(piece, request) == \E text \in RequestTexts(request) : Occurs(piece, text)

\* C23: for every provider the request sent to the inference collaborator
\* contains the user's prompt and, when present, the retrieved context,
\* every turn of the conversation history and the instructions
C23_FullPromptSent ==
    (assembly.stage = "out" /\ assembly.service = "node") =>
      /\ Sent(assembly.userPrompt, assembly.request)
      /\ Sent(assembly.searchResults, assembly.request)
      /\ \A i \in DOMAIN assembly.conversationHistory :
           Sent(RenderTurn(assembly.conversationHistory[i]), assembly.request)
      /\ assembly.instructions # <<>> =>
           Sent(assembly.instructions, assembly.request)

\* the pieces of an assembly that are not empty, in the order user prompt,
\* retrieved context, conversation history, instructions; the context and
\* the history are named by their headings
PiecesInOrder ==
    FilterBoolean(<<assembly.userPrompt,
                    IF assembly.searchResults = <<>> THEN <<>>
                    ELSE <<"Relevant information from documents:">>,
                    IF assembly.conversationHistory = <<>> THEN <<>>
                    ELSE <<"Previous conversation:">>,
                    assembly.instructions>>)

\* C24: the full prompt holds the non-empty pieces in the order user prompt,
\* retrieved context, conversation history, instructions, and nothing of an
\* empty piece (Node and .NET assembler)
C24_FixedOrder ==
    assembly.stage = "out" =>
      LET text == assembly.fullPrompt
          pieces == PiecesInOrder
      IN  /\ \A i \in DOMAIN pieces : Occurs(pieces[i], text)
          /\ \A i \in DOMAIN pieces : \A k \in DOMAIN pieces :
               i < k => FirstPos(pieces[i], text) + Len(pieces[i])
                          <= FirstPos(pieces[k], text)
          /\ assembly.searchResults = <<>> =>
               ~Occurs(<<"Relevant information from documents:">>, text)
          /\ assembly.conversationHistory = <<>> =>
               ~Occurs(<<"Previous conversation:">>, text)
          /\ text = Trim(text)

\* C25: the history a submission with includeHistory reads is the list of
\* the stored turns of its own conversation, each once and no turn of
\* another conversation, in ascending turn order, and every one of them is
\* rendered into the conversation context; without includeHistory the
\* submission carries no history (the step that counts a submission as
\* received is the one that reads its history)
C25_OwnHistoryAscending ==
    [][received' = received + 1 =>
           \A q \in BagToSet(pending' (-) pending) :
             LET h == q.conversationHistory
                 own == RowsOf(turns, q.conversationId)
             IN  IF q.includeHistory
                 THEN /\ \E g \in Perms(own) :
                           \A i \in DOMAIN g :
                             h[i] = [turn |-> g[i].turn,
                                     user_prompt |-> g[i].user_prompt,
                                     llm_response |-> g[i].llm_response]
                      /\ Len(h) = Cardinality(own)
                      /\ \A i, k \in DOMAIN h : i < k => h[i].turn <= h[k].turn
                      /\ \A i \in DOMAIN h :
                           Occurs(RenderTurn(h[i]), ConversationContext(h))
                 ELSE h = <<>> /\ ConversationContext(h) = <<>>]_vars

\* a submission to c1 is in flight with a history of c1's one turn, read
\* while the table also held a turn of another conversation
C25_Witness ==
    /\ \E r1, r2 \in turns :
         /\ r1.id < r2.id
         /\ r1.conversation_id # "c1"
         /\ r2.conversation_id = "c1"
    /\ Cardinality(turns) = 2
    /\ \E q \in BagToSet(pending) :
         /\ q.conversationId = "c1"
         /\ q.includeHistory
         /\ Len(q.conversationHistory) = 1

\* C26: a change of a stored turn's timestamp, full_prompt or rag_context
\* changes no Verify report, of the turn's conversation or of the table
C26_UnhashedColumnsFrame ==
    [][\A id \in 1..seq, col \in UnhashedColumns :
         \A v \in TamperValues(col) :
           Tamper(id, col, v) =>
             \A c \in ConvsOf(turns) \cup {NoConv} :
               verifyConversation(turns', c) = verifyConversation(turns, c)]_vars

\* the full_prompt of one of two stored turns was changed and Verify reports
\* the table valid
C26_Witness ==
    /\ \E r \in turns : /\ tampered = {<<r.id, "full_prompt">>}
                         /\ r.full_prompt = <<"x">>
    /\ verifyConversation(turns, NoConv) =
         {[valid |-> TRUE, totalTurns |-> 2, invalidTurns |-> 0,
           conversationsVerified |-> 2]}

\* C27: whenever submissions are in flight, a moment follows at which none
\* is, and a submission leaves only with a success or an error response
C27_ChatCompletes ==
    /\ (pending # EmptyBag) ~> (pending = EmptyBag)
    /\ [][BagCardinality(pending') < BagCardinality(pending) =>
            /\ response'.status \in {200, 500}
            /\ response'.status = 500 => response'.error = "Internal server error"
            /\ response'.status = 200 => response'.hashMsg # Null]_vars

\* two submissions were received and none is in flight, the last answered
\* after its inference call timed out
C27_Witness ==
    /\ received = 2
    /\ pending = EmptyBag
    /\ response = Fail("timeout")

\* C28: every stored turn is chained to the last chain hash its conversation
\* had in the table exactly as it was when the turn was inserted: no append
\* falls between a submission's read of that hash and its insert
C28_ReadInsertAtomic ==
    \A r \in turns :
      LET before == {o \in RowsOf(turns, r.conversation_id) : o.id < r.id}
      IN  PrevOf(r.chain_hash) =
            IF before = {} THEN Genesis
            ELSE (CHOOSE o \in TopRows(before) : TRUE).chain_hash

\* two submissions that declared the same turn appended to c1 one after the
\* other, the second chained to the first, while a third submission to c1,
\* received before either append, is still in flight
C28_Witness ==
    /\ \E r1, r2 \in turns :
         /\ r1.conversation_id = "c1" /\ r2.conversation_id = "c1"
         /\ r1.id = 1 /\ r2.id = 2 /\ r1.turn = r2.turn
         /\ PrevOf(r2.chain_hash) = r1.chain_hash
    /\ \E q \in BagToSet(pending) :
         /\ q.conversationId = "c1" /\ q.pc = "generate"
         /\ q.includeHistory /\ q.conversationHistory = <<>>

\* C29: in the .NET service no two InsertTurn calls of one conversation that
\* have read the previous chain hash and not yet inserted hold the same hash
C29_NetReadInsertAtomic ==
    \A q \in BagToSet(pending) :
      q.pc = "insert" =>
        /\ CopiesIn(q, pending) = 1
        /\ \A o \in BagToSet(pending) \ {q} :
             (o.pc = "insert" /\ o.conversationId = q.conversationId)
               => o.previousChainHash # q.previousChainHash

\* C30: on every table written by successful /chat submissions alone, Verify
\* of each stored conversation and of the whole table reports valid = true
C30_UntamperedVerifies ==
    Untampered =>
      \A c \in ConvsOf(turns) \cup {NoConv} :
        \A rep \in verifyConversation(turns, c) : rep.valid = TRUE

\* C31: the content hash recomputed from a stored turn as it is read back
\* (turn, user_prompt, llm_response, machine_state) is the stored content
\* hash, whatever form of `turn` the request body carried
C31_ContentHashRoundTrip ==
    \A r \in turns :
      hashTurnContentJs(JsNumber(r.turn), r.user_prompt, r.llm_response,
                        r.machine_state) = r.content_hash

\* C32: the text a submission stores and answers with is the one its own
\* inference call returned, whatever the shared `result` held before and
\* whatever other submissions are in flight
C32_OwnInferenceResult ==
    [][\A q \in BagToSet(pending), text \in TurnTexts :
         GenerateReturn(q, text) =>
           LET satiTurn == q.turn + 1
               ms == machineStateOf(text, satiTurn)
           IN  /\ seq' = seq + 1
               /\ NewRow.llm_response = text
               /\ NewRow.machine_state = ms
               /\ NewRow.content_hash = hashTurnContent(satiTurn, q.prompt, text, ms)
               /\ response'.hashMsg = NewRow.chain_hash
               /\ result' = text]_vars

\* a submission stored the answer "r2" when the shared `result` had been
\* assigned "r1" by the submission that appended before it, both submissions
\* having declared the same turn of the same conversation
C32_Witness ==
    /\ result = "r2"
    /\ \E r1, r2 \in turns :
         /\ r1.id = 1 /\ r2.id = 2
         /\ r1.conversation_id = r2.conversation_id /\ r1.turn = r2.turn
         /\ r1.llm_response = "r1" /\ r2.llm_response = "r2"

\* C33: when a submission with includeHistory appends its turn, the history
\* rendered into its prompt is the list of the turns of its conversation
\* stored at that moment
C33_HistoryCurrentAtAppend ==
    [][\A q \in BagToSet(pending), text \in TurnTexts :
         (GenerateReturn(q, text) /\ q.includeHistory) =>
           q.conversationHistory \in getConversationHistory(turns, q.conversationId)]_vars

\* the positions of scan f that the verifier counts as invalid
Flagged(f) == {i \in DOMAIN f : InvalidAt(f, i)}

\* C34: when the stored chain_hash of turn k of an honestly written
\* conversation is replaced and nothing else is changed, Verify counts turn k
\* and, where stored, turn k+1 as invalid, and no other turn
C34_ChainEditFlagsTwo ==
    [][\A r \in turns :
         (/\ HonestlyWritten(r.conversation_id)
          /\ \E v \in ForgedChainHashes(turns) : Tamper(r.id, "chain_hash", v)) =>
           \A f \in ScanOrders(RowsOf(turns', r.conversation_id)) :
             /\ \A i \in DOMAIN f : f[i].turn = i
             /\ Flagged(f) = {r.turn, r.turn + 1} \cap DOMAIN f
             /\ \A rep \in verifyConversation(turns', r.conversation_id) :
                  /\ rep.valid = FALSE
                  /\ rep.invalidTurns = Cardinality(Flagged(f))]_vars

\* the chain hash of turn 1 of a three-turn conversation was replaced: turns
\* 1 and 2 are counted invalid, turn 3 is not
C34_Witness ==
    /\ HonestlyWritten("c1")
    /\ \A r \in turns : r.id > 1 => PrevOf(r.chain_hash) # SHA256(<<<<"x">>, <<"x">>>>)
    /\ \E r \in RowsOf(turns, "c1") : r.turn = 1 /\ tampered = {<<r.id, "chain_hash">>}
    /\ Flagged(ScanOf("c1")) = {1, 2}
    /\ verifyConversation(turns, "c1") =
         {[valid |-> FALSE, totalTurns |-> 3, invalidTurns |-> 2,
           conversationsVerified |-> 1]}

\* C35: deleting from an honestly written conversation a stored turn that
\* has a successor makes Verify of the conversation report valid = false,
\* the successor of the deleted turn being counted invalid
C35_DeletionDetected ==
    [][\A r \in turns :
         (/\ HonestlyWritten(r.conversation_id)
          /\ \E s \in RowsOf(turns, r.conversation_id) : s.turn = r.turn + 1
          /\ DeleteTurn(r.id)) =>
           /\ \A f \in ScanOrders(RowsOf(turns', r.conversation_id)) :
                \E i \in DOMAIN f : f[i].turn = r.turn + 1 /\ InvalidAt(f, i)
           /\ \A rep \in verifyConversation(turns', r.conversation_id) :
                rep.valid = FALSE]_vars

\* turn 2 of a three-turn conversation was deleted: Verify scans turns 1 and
\* 3 and counts turn 3, chained to the deleted turn, as invalid
C35_Witness ==
    /\ tampered = {<<2, "deleted">>}
    /\ \E r1, r3 \in turns :
         /\ turns = {r1, r3}
         /\ r1.id = 1 /\ r1.turn = 1 /\ r3.id = 3 /\ r3.turn = 3
         /\ PrevOf(r3.chain_hash) # r1.chain_hash
    /\ Flagged(ScanOf("c1")) = {2}
    /\ verifyConversation(turns, "c1") =
         {[valid |-> FALSE, totalTurns |-> 2, invalidTurns |-> 1,
           conversationsVerified |-> 1]}

\* the report Verify returns for conversation c, or for the table (NoConv)
ReportFor(c) == CHOOSE rep \in verifyConversation(turns, c) : TRUE

\* the sum over the conversation ids C of a count Verify(c) reports
RECURSIVE SumOfReports(_, _)
SumOfReports(C, field) ==
    IF C = {} THEN 0
    ELSE LET c == CHOOSE x \in C : TRUE
         IN  ReportFor(c)[field] + SumOfReports(C \ {c}, field)

\* C36: the report of Verify over the whole table carries totalTurns and
\* invalidTurns equal to the sums of those counts over Verify(c) of every
\* stored conversation id c, conversationsVerified equal to the number of
\* those ids, and valid exactly when every Verify(c) is valid
C36_VerifyDecomposes ==
    LET all == ReportFor(NoConv)
        ids == ConvsOf(turns)
    IN  /\ ReportFields \subseteq DOMAIN all
        /\ all.totalTurns = SumOfReports(ids, "totalTurns")
        /\ all.invalidTurns = SumOfReports(ids, "invalidTurns")
        /\ all.conversationsVerified = Cardinality(ids)
        /\ all.valid = (\A c \in ids : ReportFor(c).valid)

\* the filenames that have at least one chunk in documentChunks
FilesWithChunks ==
    {rag.documentChunks[i].filename : i \in DOMAIN rag.documentChunks}

\* C37: once every initialize() call has completed and isLoaded is true,
\* documentChunks holds the chunks of each loaded PDF exactly once, also
\* when the calls overlapped
C37_InitializeLoadsOnce ==
    (ragCalls.inflight = {} /\ rag.isLoaded) =>
      /\ FilesWithChunks = rag.loadedFiles
      /\ \A f \in rag.loadedFiles :
           FilterChunks(rag.documentChunks, {f}, TRUE) = ChunksOfFile(f)

\* C38: loadedFiles is the set of filenames with at least one chunk in
\* documentChunks, and search returns the empty string for every query while
\* isLoaded is false
C38_LoadedFilesMatchChunks ==
    /\ rag.loadedFiles = FilesWithChunks
    /\ ~rag.isLoaded =>
         \A query \in Queries :
           SearchResult(rag.isLoaded, rag.documentChunks, query) = ""

====
